---- MODULE Spec2Model ----
(***************************************************************************)
(* muncon: S-parameter uncertainty datasets (Usnp), the MeasFile covariance *)
(* engine, the port-convention functions of Usnp and the SnpFile column     *)
(* header.  numpy arrays are functions over 0-based index ranges, Python    *)
(* lists are sequences, mutable arrays live in a heap so that two names of  *)
(* one array are one heap cell.                                             *)
(***************************************************************************)
EXTENDS Integers, Sequences, FiniteSets, TLC

VARIABLES
    estimate,    \* MeasFile.estimate: None or the reference Usnp
    usnp,        \* MeasFile.usnp: the output Usnp (AbstractFileHandler.usnp)
    mc_paths,    \* MeasFile.mc_paths
    cv_paths,    \* MeasFile.cv_paths
    mc_usnps,    \* MeasFile.mc_usnps
    cv_usnps,    \* MeasFile.cv_usnps
    heap,        \* the numpy arrays that are alive, by identity
    call,        \* the last MeasFile/DsdFile call: its arguments and outcome
    estimate0,   \* the values of estimate.s right after MeasFile.read
    pure,        \* the last call of a port-convention function on an array
    snp          \* a SnpFile object and the lines it has read

vars == <<estimate, usnp, mc_paths, cv_paths, mc_usnps, cv_usnps, heap, call,
          estimate0, pure, snp>>

measVars == <<estimate, usnp, mc_paths, cv_paths, mc_usnps, cv_usnps, heap, call,
              estimate0>>

----------------------------------------------------------------------------
(* Bounds of the model. *)

\* the longest ensemble (paths of one kind in a .meas file, samples held)
MaxSamples == 2
\* the longest frequency axis of a dataset
MaxFreqs == 6
\* the number of distinct random draws of one mc_from_cv sample
MaxDraw == 1
\* the number of mc_from_cv calls made on one MeasFile
MaxRuns == 1
\* the largest entry of an array handed to a port-convention function
MaxVal == 2
\* the most rows of an S-parameter array handed to a port-convention function
MaxRows == 3
\* the number of data lines a SnpFile read takes
MaxLines == 2

----------------------------------------------------------------------------
(* Floating-point values: exact fractions n/d in lowest terms with d > 0;  *)
(* d = 0 is what a division by zero leaves (n = 0: nan, n > 0: inf,        *)
(* n < 0: -inf).                                                           *)

Abs(i) == IF i < 0 THEN -i ELSE i

Sign(i) == IF i < 0 THEN -1 ELSE IF i > 0 THEN 1 ELSE 0

RECURSIVE GCD(_, _)
GCD(a, b) == IF b = 0 THEN a ELSE GCD(b, a % b)

Frac(n, d) ==
    IF d = 0 THEN [n |-> Sign(n), d |-> 0]
    ELSE IF d = 1 THEN [n |-> n, d |-> 1]
    ELSE LET g == GCD(Abs(n), Abs(d))
         IN  [n |-> (Sign(d) * n) \div g, d |-> Abs(d) \div g]

Num(i) == [n |-> i, d |-> 1]

IsFinite(x) == x.d # 0

RAdd(x, y) == Frac(x.n * y.d + y.n * x.d, x.d * y.d)

RSub(x, y) == Frac(x.n * y.d - y.n * x.d, x.d * y.d)

RMul(x, y) == Frac(x.n * y.n, x.d * y.d)

\* x / y as numpy divides: a zero divisor gives nan or +-inf, never an error
RDiv(x, y) == Frac(x.n * y.d, x.d * y.n)

RECURSIVE RSum(_, _)
\* the sum of term[k] for k in 1..n
RSum(term, n) == IF n = 0 THEN Num(0) ELSE RAdd(RSum(term, n - 1), term[n])

----------------------------------------------------------------------------
(* Arrays. *)

\* len(a) of an array or list indexed from 0
NRows(a) == Cardinality(DOMAIN a)

\* the flattened width of a p-port S-parameter row: real and imaginary parts
Width(p) == 2 * p * p

\* the index map of a[:, [2, 4]] = a[:, [4, 2]], or of [3, 5] / [5, 3]
Exchange(a, b, i) == IF i = a THEN b ELSE IF i = b THEN a ELSE i

\* the S12 <-> S21 permutation of a flattened 2-port row
Perm(i) == Exchange(3, 5, Exchange(2, 4, i))

\* zeros((len(sparams), 8)) with columns 0:2 copied: a new array
pad_to_2port(sparams) ==
    [f \in DOMAIN sparams |->
        [i \in 0..7 |-> IF i < 2 THEN sparams[f][i] ELSE Num(0)]]

\* swap_s12_s21 with the fancy-index copy lost: columns 2 and 3 are overwritten
\* before they are read
swap_s12_s21_nocopy(sparams) ==
    [f \in DOMAIN sparams |->
        [i \in DOMAIN sparams[f] |->
            IF i = 2 THEN sparams[f][4] ELSE IF i = 3 THEN sparams[f][5]
            ELSE sparams[f][i]]]

\* the values the array passed in holds after swap_s12_s21 (done in place)
swap_s12_s21(sparams) ==
    LET s1 == [f \in DOMAIN sparams |->
                  [i \in DOMAIN sparams[f] |-> sparams[f][Exchange(2, 4, i)]]]
    IN  [f \in DOMAIN s1 |->
            [i \in DOMAIN s1[f] |-> s1[f][Exchange(3, 5, i)]]]

\* the values the array passed in holds after swap_v12_v21 (done in place),
\* and the IndexError of a fancy index beyond an axis.  On a 3-D array
\* [:, [2, 4]] indexes axis 1 (the rows) and [[2, 4], :] indexes axis 0
\* (the frequencies); every assignment made before an error stays.
swap_v12_v21(covariance) ==
    LET F  == NRows(covariance)
        W  == NRows(covariance[0])
        c1 == [f \in DOMAIN covariance |->
                  [i \in DOMAIN covariance[f] |-> covariance[f][Exchange(2, 4, i)]]]
        c2 == [f \in DOMAIN c1 |->
                  [i \in DOMAIN c1[f] |-> c1[f][Exchange(3, 5, i)]]]
        c3 == [f \in DOMAIN c2 |-> c2[Exchange(2, 4, f)]]
        c4 == [f \in DOMAIN c3 |-> c3[Exchange(3, 5, f)]]
    IN  IF W < 5 THEN [err |-> "IndexError", val |-> covariance]
        ELSE IF W < 6 THEN [err |-> "IndexError", val |-> c1]
        ELSE IF F < 5 THEN [err |-> "IndexError", val |-> c2]
        ELSE IF F < 6 THEN [err |-> "IndexError", val |-> c3]
        ELSE [err |-> "none", val |-> c4]

----------------------------------------------------------------------------
(* The port-convention functions called on their own, on well-formed       *)
(* arrays: 1-port rows for pad_to_2port, 2-port rows for swap_s12_s21,     *)
(* 2-port covariance for swap_v12_v21.                                     *)

\* a 2-D array of nf rows of w values
SParamInput(nf, w, a, b) ==
    [f \in 0..(nf - 1) |-> [i \in 0..(w - 1) |-> Num((a * i + b + f) % (MaxVal + 1))]]

\* a 3-D array of nf symmetric 8 x 8 matrices
CovInput(nf, a, b) ==
    [f \in 0..(nf - 1) |->
        [i \in 0..7 |-> [j \in 0..7 |-> Num(a * (i + 1) * (j + 1) + b * f)]]]

PureInit ==
    pure = [op |-> "none", in |-> <<>>, arr |-> <<>>, out |-> <<>>,
            same |-> FALSE, err |-> "none", n |-> 0]

\* r = pad_to_2port(x)
PadTo2Port ==
    \E nf \in 1..MaxRows, a \in 0..MaxVal, b \in 0..MaxVal :
        LET x == SParamInput(nf, Width(1), a, b)
        IN  pure' = [op |-> "pad_to_2port", in |-> x, arr |-> x,
                     out |-> pad_to_2port(x), same |-> FALSE, err |-> "none", n |-> 1]

\* r = swap_s12_s21(x)
SwapS12S21 ==
    \E nf \in 1..MaxRows, a \in 0..MaxVal, b \in 0..MaxVal :
        LET x == SParamInput(nf, Width(2), a, b)
            y == swap_s12_s21(x)
        IN  pure' = [op |-> "swap_s12_s21", in |-> x, arr |-> y,
                     out |-> y, same |-> TRUE, err |-> "none", n |-> 1]

\* r = swap_s12_s21(r), on the result of the call before
SwapS12S21Again ==
    /\ pure.op = "swap_s12_s21"
    /\ pure.n < 2
    /\ LET y == swap_s12_s21(pure.out)
       IN  pure' = [pure EXCEPT !.arr = y, !.out = y, !.n = @ + 1]

\* r = swap_v12_v21(c)
SwapV12V21 ==
    \E nf \in 1..MaxFreqs, a \in 1..MaxVal, b \in 0..MaxVal :
        LET c == CovInput(nf, a, b)
            r == swap_v12_v21(c)
        IN  pure' = [op |-> "swap_v12_v21", in |-> c, arr |-> r.val,
                     out |-> IF r.err = "none" THEN r.val ELSE <<>>,
                     same |-> r.err = "none", err |-> r.err, n |-> 1]

----------------------------------------------------------------------------
(* Usnp objects.  The arrays s and v are references: 0 is the empty list   *)
(* [] of Usnp.__init__, -1 is None, a positive number is a heap cell.  z0  *)
(* and f are never changed in place and are held by value, as sequences.   *)

EmptyList == 0

None == -1

Usnp == [p |-> 0, z0 |-> <<>>, f |-> <<>>, s |-> EmptyList, v |-> EmptyList]

\* MeasFile.estimate before read(): no Usnp at all
NoUsnp == [p |-> -1, z0 |-> <<>>, f |-> <<>>, s |-> None, v |-> None]

linspace(start, stop, num) == [k \in 1..num |-> start]

set_ports(u, ports) == [u EXCEPT !.p = ports]

\* set_z0 with a list, tuple or ndarray
set_z0(u, z0) ==
    IF Len(z0) = u.p THEN [u EXCEPT !.z0 = z0]
    ELSE [u EXCEPT !.z0 = linspace(z0[1], z0[1], u.p)]

\* set_z0 with a scalar
set_z0_scalar(u, z0) == [u EXCEPT !.z0 = linspace(z0, z0, u.p)]

set_freqs(u, freqs) == [u EXCEPT !.f = freqs]

set_sparams(u, sparams) == [u EXCEPT !.s = sparams]

set_covariance(u, covariance) == [u EXCEPT !.v = covariance]

----------------------------------------------------------------------------
(* The heap of arrays: a function from the identities alive to the values. *)

\* the array a reference names; the list [] has no rows
ArrayOf(h, ref) == IF ref > 0 THEN h[ref] ELSE <<>>

\* a new array gets an identity no live array has
NewId(h) == CHOOSE id \in 1..(Cardinality(DOMAIN h) + 1) :
                /\ id \notin DOMAIN h
                /\ \A k \in 1..(id - 1) : k \in DOMAIN h

Alloc(h, id, val) == [k \in DOMAIN h \cup {id} |-> IF k = id THEN val ELSE h[k]]

\* the references the objects of a MeasFile hold, in a fixed order
RefList(est, u, mcs, cvs) ==
    <<est.s, u.s, u.v>> \o [k \in 1..Len(cvs) |-> cvs[k].s]
                        \o [k \in 1..Len(mcs) |-> mcs[k].s]

\* the place of array id among the arrays of refs, by first mention
Rank(refs, id) ==
    LET first == CHOOSE j \in 1..Len(refs) :
                     refs[j] = id /\ \A k \in 1..(j - 1) : refs[k] # id
    IN  Cardinality({refs[k] : k \in 1..(first - 1)} \ {EmptyList, None}) + 1

Renamed(refs, ref) == IF ref > 0 THEN Rank(refs, ref) ELSE ref

RenamedUsnp(refs, u) ==
    [u EXCEPT !.s = Renamed(refs, u.s), !.v = Renamed(refs, u.v)]

\* The state a call leaves.  An array no object refers to any more is freed
\* (reference counting); the identities of the others are renamed in the
\* order of RefList, an identity telling nothing but which names share it.
Commit(est, u, mcs, cvs, h) ==
    LET refs == RefList(est, u, mcs, cvs)
        live == {refs[k] : k \in 1..Len(refs)} \ {EmptyList, None}
    IN  /\ estimate' = RenamedUsnp(refs, est)
        /\ usnp' = RenamedUsnp(refs, u)
        /\ mc_usnps' = [k \in 1..Len(mcs) |-> RenamedUsnp(refs, mcs[k])]
        /\ cv_usnps' = [k \in 1..Len(cvs) |-> RenamedUsnp(refs, cvs[k])]
        /\ heap' = [n \in 1..Cardinality(live) |->
                       h[CHOOSE id \in live : Rank(refs, id) = n]]

----------------------------------------------------------------------------
(* The sample files a .meas file names.  All hold the port count and the   *)
(* frequency axis of the estimate; file k differs from the estimate by     *)
(* Dev(k, f, i).  Frequencies are held in GHz, the unit of the MUF files.  *)

\* the nominal value of the estimate file at frequency f, position i
EstVal(f, i) == i + 1 + f

\* at the first frequency the files deviate along different axes, at the
\* others along one direction
Dev(k, f, i, w) ==
    IF f = 0 THEN (IF i = (k - 1) % w THEN 1 ELSE 0) ELSE k * (1 + ((i + f) % 3))

\* the S-parameter rows of file k (0: the estimate) of a p-port, nf-point set
FileData(k, p, nf) ==
    [f \in 0..(nf - 1) |->
        [i \in 0..(Width(p) - 1) |->
            Num(EstVal(f, i) + (IF k = 0 THEN 0 ELSE Dev(k, f, i, Width(p))))]]

\* the Usnp MeasSnpFile(path).read() leaves, its s array at heap cell id
MeasSnpFile_read(p, nf, id) ==
    LET u0 == set_ports(Usnp, p)
        u1 == set_z0_scalar(u0, 50)
        u2 == set_freqs(u1, [k \in 1..nf |-> k])
        u3 == set_sparams(u2, id)
    IN  set_covariance(u3, None)

\* the Usnps and the heap after reading the files of paths one by one
RECURSIVE LoadSamples(_, _, _, _, _)
LoadSamples(paths, p, nf, h, acc) ==
    IF Len(acc) = Len(paths) THEN [usnps |-> acc, heap |-> h]
    ELSE LET id == NewId(h)
             k  == paths[Len(acc) + 1]
         IN  LoadSamples(paths, p, nf, Alloc(h, id, FileData(k, p, nf)),
                         Append(acc, MeasSnpFile_read(p, nf, id)))

----------------------------------------------------------------------------
(* numpy on the ensemble. *)

IsEmptyArr(a) == DOMAIN a = {}

\* np.array(list of arrays) refuses arrays of different shapes
Ragged(arrs) ==
    \E j, k \in 1..Len(arrs) : IsEmptyArr(arrs[j]) # IsEmptyArr(arrs[k])

\* sparam_array.mean(0) of a non-empty stack of equal shapes
mean0(arrs) ==
    LET N == Len(arrs)
    IN  [f \in DOMAIN arrs[1] |->
            [i \in DOMAIN arrs[1][f] |->
                RDiv(RSum([k \in 1..N |-> arrs[k][f][i]], N), Num(N))]]

\* build_covariance on N >= 1 arrays of the shape of mean
build_covariance(sparam_array, mean) ==
    LET N == Len(sparam_array)
        deviations(k, f, i) == RSub(sparam_array[k][f][i], mean[f][i])
    IN  [f \in DOMAIN mean |->
            [i \in DOMAIN mean[f] |->
                [j \in DOMAIN mean[f] |->
                    RDiv(RSum([k \in 1..N |->
                                  RMul(deviations(k, f, i), deviations(k, f, j))], N),
                         Num(N - 1))]]]

\* the outcome of lines 85-90 / 98-100: the exception raised, or the mean
\* (shared: it is estimate.s itself) and the covariance
BuildOutcome(est, h, usnps, use_mc_mean) ==
    LET arrs == [k \in 1..Len(usnps) |-> ArrayOf(h, usnps[k].s)]
        N    == Len(usnps)
        fail(e) == [err |-> e, shared |-> FALSE, mean |-> <<>>, cov |-> <<>>]
    IN  IF Ragged(arrs) THEN fail("ValueError")
        ELSE IF ~use_mc_mean /\ est = NoUsnp THEN fail("AttributeError")
        ELSE IF N = 0
             THEN (IF use_mc_mean THEN fail("AxisError") ELSE fail("ValueError"))
        ELSE IF IsEmptyArr(arrs[1])
             THEN (IF ~use_mc_mean THEN fail("ValueError")
                   ELSE IF est = NoUsnp THEN fail("AttributeError")
                   ELSE [err |-> "none", shared |-> FALSE, mean |-> <<>>, cov |-> <<>>])
        ELSE LET mean == IF use_mc_mean THEN mean0(arrs) ELSE h[est.s]
             IN  [err |-> "none", shared |-> ~use_mc_mean, mean |-> mean,
                  cov |-> build_covariance(arrs, mean)]

----------------------------------------------------------------------------
(* Cholesky factorization and repair.  The factors themselves (square      *)
(* roots, eigenvectors) are kept as terms: [rep |-> FALSE, of |-> c] is    *)
(* cholesky(c) and [rep |-> TRUE, of |-> c] is cholesky(repair_cv(c)).     *)
(* Whether a factorization succeeds is computed exactly.                   *)

AllFinite(m) == \A i \in DOMAIN m : \A j \in DOMAIN m[i] : IsFinite(m[i][j])

\* the pivots of the lower triangle of m from column j on are all positive
RECURSIVE Pivots(_, _)
Pivots(m, j) ==
    IF j = NRows(m) THEN TRUE
    ELSE IF m[j][j].n <= 0 THEN FALSE
    ELSE Pivots([i \in DOMAIN m |->
                    [k \in DOMAIN m |->
                        IF i > j /\ k > j /\ i >= k
                        THEN RSub(m[i][k], RDiv(RMul(m[i][j], m[k][j]), m[j][j]))
                        ELSE m[i][k]]], j + 1)

\* np.linalg.cholesky(cov) returns (no LinAlgError): every pivot is positive
\* and none is nan.  An array divided by zero holds only nan and inf, and
\* the factorization then meets a nan pivot by its second column.
cholesky_ok(cov) == AllFinite(cov) /\ Pivots(cov, 0)

\* np.linalg.cholesky(repair_cv(cov)) returns.  With nan or inf in cov it
\* never does (eigh or cholesky raises LinAlgError).  Otherwise the repaired
\* matrix has its eigenvalues clipped to machine eps, and the rounding of
\* q . diag(d_rep) . q^T decides whether every pivot comes out positive:
\* rounds_ok is that outcome.
repaired_ok(cov, rounds_ok) == AllFinite(cov) /\ rounds_ok

\* the factor mc_from_cv drops the repair of: the except clause passes
factor_swallowed(cov, rounds_ok) ==
    IF cholesky_ok(cov) THEN [err |-> "none", rep |-> FALSE, of |-> cov]
    ELSE [err |-> "none", rep |-> FALSE, of |-> cov]

\* lines 122-127 for one frequency: the factor appended to chol, or the
\* LinAlgError that leaves the except clause
factor(cov, rounds_ok) ==
    IF cholesky_ok(cov) THEN [err |-> "none", rep |-> FALSE, of |-> cov]
    ELSE IF repaired_ok(cov, rounds_ok) THEN [err |-> "none", rep |-> TRUE, of |-> cov]
    ELSE [err |-> "LinAlgError", rep |-> TRUE, of |-> cov]

\* lines 120-127: the list chol, or the first exception of the loop
RECURSIVE Factors(_, _, _, _)
Factors(v, nf, chol, rounds_ok) ==
    IF Len(chol) = nf THEN [err |-> "none", chol |-> chol]
    ELSE IF IsEmptyArr(v) THEN [err |-> "IndexError", chol |-> chol]
    ELSE LET r == factor(v[Len(chol)], rounds_ok)
         IN  IF r.err # "none" THEN [err |-> r.err, chol |-> chol]
             ELSE Factors(v, nf, Append(chol, [rep |-> r.rep, of |-> r.of]), rounds_ok)

\* np.dot(chol[i_freq].transpose(), random)[i] for the draw d of a sample:
\* the factor being a term, the product is drawn as a whole
Perturbation(d, f, i) == Num(d)

\* the values of the array sample after the first m passes of the loop of
\* lines 131-141: every pass adds to the same array
RECURSIVE Sampled(_, _, _, _)
Sampled(sample, draws, m, nchol) ==
    IF m = 0 THEN sample
    ELSE LET before == Sampled(sample, draws, m - 1, nchol)
         IN  [f \in DOMAIN before |->
                 [i \in DOMAIN before[f] |->
                     IF f < nchol
                     THEN RAdd(before[f][i], Perturbation(draws[m], f, i))
                     ELSE before[f][i]]]

\* the Usnp u of one pass of the loop, lines 133-136 and 140
NewSample(out, id) ==
    LET u0 == set_freqs(Usnp, out.f)
        u1 == set_z0(u0, out.z0)
        u2 == set_ports(u1, out.p)
    IN  set_sparams(u2, id)

----------------------------------------------------------------------------
(* MeasFile and the DsdFile written from its output dataset. *)

\* the record of a call: op and err (the exception that reached the caller),
\* what the call was given, the size of the ensemble it found, and whether
\* it reached the setters of the output dataset
Call(op, err) ==
    [op |-> op, err |-> err, n |-> 0, draws |-> <<>>, chol |-> <<>>,
     sparams |-> <<>>, covariance |-> <<>>,
     nsamples |-> Len(IF op = "build_cv_covariance" THEN cv_usnps ELSE mc_usnps),
     updated |-> FALSE, runs |-> call.runs]

\* the port counts and frequency-axis lengths of the .meas files read
Shapes == {<<1, 1>>, <<1, 2>>, <<2, 1>>, <<2, MaxFreqs>>}

MeasInit ==
    /\ estimate = NoUsnp
    /\ usnp = Usnp
    /\ mc_paths = <<>>
    /\ cv_paths = <<>>
    /\ mc_usnps = <<>>
    /\ cv_usnps = <<>>
    /\ heap = <<>>
    /\ call = [op |-> "init", err |-> "none", n |-> 0, draws |-> <<>>, chol |-> <<>>,
               sparams |-> <<>>, covariance |-> <<>>,
               nsamples |-> 0, updated |-> FALSE, runs |-> 0]
    /\ estimate0 = <<>>

\* MeasFile.read() of a .meas file naming a p-port estimate of nf points and
\* n sample files of each kind; a MeasFile reads its file once, as in main.py
MeasFile_read ==
    /\ estimate = NoUsnp
    /\ \E shape \in Shapes, n \in 0..MaxSamples :
          LET p  == shape[1]
              nf == shape[2]
              id == NewId(heap)
              h1 == Alloc(heap, id, FileData(0, p, nf))
          IN  /\ Commit(MeasSnpFile_read(p, nf, id), usnp, mc_usnps, cv_usnps, h1)
              /\ estimate0' = h1[id]
              /\ mc_paths' = mc_paths \o [k \in 1..n |-> k]
              /\ cv_paths' = cv_paths \o [k \in 1..n |-> k]
    /\ call' = Call("read", "none")

load_mc_samples ==
    /\ LET r == LoadSamples(mc_paths, estimate.p, Len(estimate.f), heap, <<>>)
       IN  Commit(estimate, usnp, r.usnps, cv_usnps, r.heap)
    /\ call' = Call("load_mc_samples", "none")
    /\ UNCHANGED <<mc_paths, cv_paths, estimate0>>

load_cv_samples ==
    /\ LET r == LoadSamples(cv_paths, estimate.p, Len(estimate.f), heap, <<>>)
       IN  Commit(estimate, usnp, mc_usnps, r.usnps, r.heap)
    /\ call' = Call("load_cv_samples", "none")
    /\ UNCHANGED <<mc_paths, cv_paths, estimate0>>

\* lines 91-95 / 101-105 after the outcome r of the lines before them
SetOutput(op, r) ==
    IF r.err # "none"
    THEN /\ call' = Call(op, r.err)
         /\ UNCHANGED <<estimate, usnp, mc_usnps, cv_usnps, heap>>
    ELSE LET sid == IF r.shared THEN estimate.s ELSE NewId(heap)
             h1  == IF r.shared THEN heap ELSE Alloc(heap, sid, r.mean)
             vid == NewId(h1)
             h2  == Alloc(h1, vid, r.cov)
             u1  == set_ports(usnp, estimate.p)
             u2  == set_freqs(u1, estimate.f)
             u3  == set_z0(u2, estimate.z0)
             u4  == set_sparams(u3, sid)
             u5  == set_covariance(u4, vid)
         IN  /\ Commit(estimate, u5, mc_usnps, cv_usnps, h2)
             /\ call' = [Call(op, "none") EXCEPT !.updated = TRUE]

build_mc_covariance ==
    /\ \E use_mc_mean \in BOOLEAN :
          SetOutput("build_mc_covariance",
                    BuildOutcome(estimate, heap, mc_usnps, use_mc_mean))
    /\ UNCHANGED <<mc_paths, cv_paths, estimate0>>

build_cv_covariance ==
    /\ SetOutput("build_cv_covariance", BuildOutcome(estimate, heap, cv_usnps, FALSE))
    /\ UNCHANGED <<mc_paths, cv_paths, estimate0>>

\* the Usnps appended by the n passes of the loop of lines 131-141
NewSamples(n, id) == [m \in 1..n |-> NewSample(usnp, id)]

mc_from_cv ==
    /\ call.runs < MaxRuns
    /\ \E rounds_ok \in BOOLEAN :
       LET r == Factors(ArrayOf(heap, usnp.v), Len(usnp.f), <<>>, rounds_ok)
       IN
       \E n \in 0..MaxSamples :
        \E draws \in [1..n -> 1..MaxDraw] :
          /\ Len(mc_usnps) + n <= MaxSamples
          /\ LET c == [Call("mc_from_cv", r.err) EXCEPT
                          !.n = n, !.draws = draws, !.chol = r.chol, !.runs = @ + 1]
             IN  IF r.err # "none"
                 THEN /\ call' = c
                      /\ UNCHANGED <<estimate, usnp, mc_usnps, cv_usnps, heap>>
                 ELSE LET mean == ArrayOf(heap, usnp.s)
                          id   == NewId(heap)
                          h1   == Alloc(heap, id, Sampled(mean, draws, n, Len(r.chol)))
                          mcs  == mc_usnps \o NewSamples(n, id)
                      IN  /\ Commit(estimate, usnp, mcs, cv_usnps, h1)
                          /\ call' = c
    /\ UNCHANGED <<mc_paths, cv_paths, estimate0>>

\* d = DsdFile(path); d.set_usnp(m.get_usnp()); d.write().  The call record
\* holds the rows and matrices written to the file, when it is written.
\* [] has no [:, ...] (TypeError), an array of no rows has no axis 1
\* (IndexError); pad_to_2port returns a new array, which alone is swapped.
DsdFile_write ==
    /\ IF usnp.s = EmptyList
       THEN /\ call' = Call("write", "TypeError")
            /\ UNCHANGED heap
       ELSE IF IsEmptyArr(heap[usnp.s])
       THEN /\ call' = Call("write", "IndexError")
            /\ UNCHANGED heap
       ELSE LET sparams == IF usnp.p = 1
                           THEN swap_s12_s21(pad_to_2port(heap[usnp.s]))
                           ELSE swap_s12_s21(heap[usnp.s])
                h1 == IF usnp.p = 1 THEN heap ELSE [heap EXCEPT ![usnp.s] = sparams]
                r  == swap_v12_v21(h1[usnp.v])
            IN  /\ heap' = [h1 EXCEPT ![usnp.v] = r.val]
                /\ call' = IF r.err # "none" THEN Call("write", r.err)
                           ELSE [Call("write", "none") EXCEPT
                                    !.sparams = sparams, !.covariance = r.val]
    /\ UNCHANGED <<estimate, usnp, mc_paths, cv_paths, mc_usnps, cv_usnps, estimate0>>

----------------------------------------------------------------------------
(* SnpFile: the column header of a Touchstone file and the frequency unit. *)

f_unit_dict == [t \in {"Hz", "KHz", "MHz", "GHZ"} |->
    IF t = "Hz" THEN 1 ELSE IF t = "KHz" THEN 1000
    ELSE IF t = "MHz" THEN 1000000 ELSE 1000000000]

\* the unit tags of the header lines read
UnitTags == {"Hz", "KHz", "MHz", "GHz", "GHZ", "kHz"}

\* the raw frequency values of the data lines read
RawFreqs == {1, 2}

\* SnpFile(path) of a .s<p>p file
SnpFile(p) ==
    [usnp |-> set_ports(Usnp, p), column_header |-> <<>>, format |-> "",
     f_multiplier |-> 1, freqs |-> <<>>, err |-> "none"]

\* parse_column_header: a tag the table lacks raises KeyError at line 210
parse_column_header(o) ==
    LET lineparts == o.column_header
        f_units   == lineparts[2]
    IN  IF f_units \notin DOMAIN f_unit_dict THEN [o EXCEPT !.err = "KeyError"]
        ELSE [o EXCEPT !.f_multiplier = f_unit_dict[f_units],
                       !.format = lineparts[4],
                       !.usnp = set_z0_scalar(@, lineparts[6])]

\* build_column_header: the first tag of the table with the multiplier
build_column_header(o) ==
    LET tags  == {t \in DOMAIN f_unit_dict : f_unit_dict[t] = o.f_multiplier}
        units == CHOOSE t \in tags : TRUE
    IN  IF tags = {} THEN [o EXCEPT !.err = "ValueError"]
        ELSE IF o.usnp.z0 = <<>> THEN [o EXCEPT !.err = "IndexError"]
        ELSE [o EXCEPT !.column_header =
                          <<"#", units, "S", o.format, "R", o.usnp.z0[1]>>]

SnpInit == snp \in {SnpFile(p) : p \in 1..2}

\* read(): a line starting with "#"
ReadHeaderLine ==
    /\ snp.err = "none"
    /\ \E t \in UnitTags, fmt \in {"RI", "MA", "DB"}, z0 \in {50, 75} :
          snp' = parse_column_header(
                     [snp EXCEPT !.column_header = <<"#", t, "S", fmt, "R", z0>>])

\* read(): a data line
ReadDataLine ==
    /\ snp.err = "none"
    /\ Len(snp.freqs) < MaxLines
    /\ \E raw \in RawFreqs :
          snp' = [snp EXCEPT !.freqs = Append(@, raw * snp.f_multiplier)]

\* write(), lines 219-221
SnpFile_write ==
    /\ snp.err = "none"
    /\ snp' = build_column_header([snp EXCEPT !.f_multiplier = 1, !.format = "RI"])

----------------------------------------------------------------------------
(* The specifications. *)

Init == MeasInit /\ PureInit /\ snp = SnpFile(1)

InitSnp == MeasInit /\ PureInit /\ SnpInit

Next ==
    \/ (MeasFile_read /\ UNCHANGED <<pure, snp>>)
    \/ (load_mc_samples /\ UNCHANGED <<pure, snp>>)
    \/ (load_cv_samples /\ UNCHANGED <<pure, snp>>)
    \/ (build_mc_covariance /\ UNCHANGED <<pure, snp>>)
    \/ (build_cv_covariance /\ UNCHANGED <<pure, snp>>)
    \/ (mc_from_cv /\ UNCHANGED <<pure, snp>>)
    \/ (DsdFile_write /\ UNCHANGED <<pure, snp>>)

\* a MeasFile, its ensembles and the DsdFile written from its output
Spec == Init /\ [][Next]_vars

NextPure ==
    \/ (PadTo2Port /\ UNCHANGED <<measVars, snp>>)
    \/ (SwapS12S21 /\ UNCHANGED <<measVars, snp>>)
    \/ (SwapS12S21Again /\ UNCHANGED <<measVars, snp>>)
    \/ (SwapV12V21 /\ UNCHANGED <<measVars, snp>>)

\* the port-convention functions on arrays drawn from bounded sets
SpecPure == Init /\ [][NextPure]_vars

NextSnp ==
    \/ (ReadHeaderLine /\ UNCHANGED <<measVars, pure>>)
    \/ (ReadDataLine /\ UNCHANGED <<measVars, pure>>)
    \/ (SnpFile_write /\ UNCHANGED <<measVars, pure>>)

\* a SnpFile reading the lines of a file, then written
SpecSnp == InitSnp /\ [][NextSnp]_vars

----------------------------------------------------------------------------
(* The claims. *)

\* the Usnps the last mc_from_cv call appended
NewOnes == {mc_usnps[call.nsamples + m] : m \in 1..call.n}

\* C1: once MeasFile.read has loaded the reference estimate, the values of
\* estimate.s stay what they were right after loading, whatever sequence of
\* build_cv_covariance, build_mc_covariance, mc_from_cv and DsdFile.write
\* calls follows.
C1_EstimateReadOnly ==
    estimate # NoUsnp => heap[estimate.s] = estimate0

\* C2: mc_from_cv called while no covariance has been built fails with an
\* error and adds no sample to the Monte Carlo ensemble.
C2_NotReady ==
    (call.op = "mc_from_cv" /\ usnp.v = EmptyList)
        => (call.err # "none" /\ Len(mc_usnps) = call.nsamples)

\* C3: every sample of mc_from_cv(M) holds, at each frequency, the mean row
\* plus the perturbation of its own draw only, and no two of the samples
\* appended share one S-parameter array.
C3_SamplesFromMean ==
    (call.op = "mc_from_cv" /\ call.err = "none" /\ usnp.v > 0)
        => /\ \A m \in 1..call.n :
                LET s    == heap[mc_usnps[call.nsamples + m].s]
                    mean == heap[usnp.s]
                IN  \A f \in DOMAIN mean : \A i \in DOMAIN mean[f] :
                        s[f][i] = RAdd(mean[f][i], Perturbation(call.draws[m], f, i))
           /\ \A m1, m2 \in 1..call.n :
                m1 # m2 => mc_usnps[call.nsamples + m1].s # mc_usnps[call.nsamples + m2].s

\* C4: every dataset mc_from_cv creates has the port count, the frequency
\* axis and the reference impedance of the output dataset, one impedance
\* entry per port.
C4_SamplesShareAxes ==
    (call.op = "mc_from_cv" /\ call.err = "none")
        => \A u \in NewOnes :
               /\ u.p = usnp.p
               /\ u.f = usnp.f
               /\ u.z0 = usnp.z0
               /\ Len(u.z0) = u.p

\* C5: build_mc_covariance / build_cv_covariance on an ensemble of fewer
\* than 2 samples (read from the sample files) fails with an error and does
\* not set the output dataset.
C5_InsufficientSamples ==
    (/\ call.op \in {"build_mc_covariance", "build_cv_covariance"}
     /\ call.nsamples < 2
     /\ \A k \in 1..Len(mc_usnps) : ~IsEmptyArr(heap[mc_usnps[k].s]))
        => (call.err # "none" /\ ~call.updated)

\* C6: swap_v12_v21 returns, for every frequency f, the matrix of f with the
\* S12 <-> S21 permutation applied to its rows and to its columns; the
\* frequency axis keeps its order and a symmetric matrix stays symmetric.
C6_SwapBothAxes ==
    (pure.op = "swap_v12_v21" /\ pure.err = "none")
        => \A f \in DOMAIN pure.in : \A i, j \in 0..7 :
               /\ pure.out[f][i][j] = pure.in[f][Perm(i)][Perm(j)]
               /\ pure.out[f][i][j] = pure.out[f][j][i]

\* C7: pad_to_2port, swap_s12_s21 and swap_v12_v21 leave the array passed in
\* as it was and return their result as another array.
C7_Pure ==
    pure.op # "none" => (pure.arr = pure.in /\ ~pure.same)

\* C8: one swap_s12_s21 exchanges positions 2 <-> 4 and 3 <-> 5 of every row
\* and leaves positions 0, 1, 6 and 7 as they were; two give the array back.
C8_Involution ==
    pure.op = "swap_s12_s21"
        => /\ pure.n = 1 =>
                \A f \in DOMAIN pure.in :
                    /\ pure.out[f][2] = pure.in[f][4]
                    /\ pure.out[f][4] = pure.in[f][2]
                    /\ pure.out[f][3] = pure.in[f][5]
                    /\ pure.out[f][5] = pure.in[f][3]
                    /\ \A i \in {0, 1, 6, 7} : pure.out[f][i] = pure.in[f][i]
           /\ pure.n = 2 => pure.out = pure.in

\* C8 witness: swap_s12_s21 applied twice to rows whose S12 and S21 differ
C8_Witness ==
    /\ pure.op = "swap_s12_s21"
    /\ pure.n = 2
    /\ \E f \in DOMAIN pure.in :
          pure.in[f][2] # pure.in[f][4] /\ pure.in[f][3] # pure.in[f][5]

\* the multiplier the specification gives a unit tag
UnitMultiplier(t) ==
    IF t = "Hz" THEN 1 ELSE IF t = "KHz" THEN 1000
    ELSE IF t = "MHz" THEN 1000000 ELSE 1000000000

\* C9: a column header with the tag Hz, KHz, MHz or GHz sets the multiplier
\* 1, 1e3, 1e6 or 1e9; a header with any other tag fails with an error.
C9_UnitTable ==
    snp.column_header # <<>>
        => LET t == snp.column_header[2]
           IN  IF t \in {"Hz", "KHz", "MHz", "GHz"}
               THEN snp.err = "none" /\ snp.f_multiplier = UnitMultiplier(t)
               ELSE snp.err # "none"

\* C10: in mc_from_cv the factor of each frequency is cholesky(cov) when that
\* factorization succeeds and cholesky(repair_cv(cov)) otherwise, never the
\* factor of the original matrix after a failure; when the repaired matrix
\* cannot be factored either, the call fails with the error and appends no
\* sample.
C10_FactorOrRepair ==
    (call.op = "mc_from_cv" /\ usnp.v > 0 /\ ~IsEmptyArr(ArrayOf(heap, usnp.v)))
        => LET v == heap[usnp.v]
           IN  /\ \A k \in 1..Len(call.chol) :
                     /\ call.chol[k].of = v[k - 1]
                     /\ call.chol[k].rep = ~cholesky_ok(v[k - 1])
               /\ call.err = "none" => Len(call.chol) = NRows(v)
               /\ (\E f \in DOMAIN v : ~AllFinite(v[f])) => call.err = "LinAlgError"
               /\ call.err # "none" => Len(mc_usnps) = call.nsamples

\* C10 witness: a call that sampled with the factor of the original matrix
\* at one frequency and the factor of the repaired matrix at another
C10_Witness ==
    /\ call.op = "mc_from_cv"
    /\ call.err = "none"
    /\ call.n > 0
    /\ \E k \in 1..Len(call.chol) : call.chol[k].rep
    /\ \E k \in 1..Len(call.chol) : ~call.chol[k].rep

\* a call that failed because a repaired matrix could not be factored
C10_Failure ==
    /\ call.op = "mc_from_cv"
    /\ call.err = "LinAlgError"

====
